---- MODULE Spec2Model ----
(***************************************************************************)
(* Expected-scan reconciliation and report driving of datman's             *)
(* dm-qc-report.py, and series discovery of datman/scan.py.                *)
(*                                                                         *)
(* The inputs of a run are the site's ExportInfo block of the project      *)
(* configuration (config), the listing of the subject's scan directory     *)
(* (scandir) and the order numpy's default argsort gives equal keys        *)
(* (argsort_ties); a run of main has besides them the subject's dicom      *)
(* directory (dcmdir), the files of the subject's QC directory (report,    *)
(* artifacts), the checklist and the --rewrite and --dry-run options.  The *)
(* operations are find_expected_files, qc_subject, qc_phantom, main and    *)
(* the construction of a Scan.                                             *)
(***************************************************************************)
EXTENDS Integers, Sequences, FiniteSets, TLC

\* ------------------------------------------------------------------ bounds
MaxFiles  == 2      \* files in the subject's directory
MaxSeries == 2      \* series numbers are 1..MaxSeries
MaxCount  == 2      \* ExportInfo Count is 0..MaxCount
MaxOrder  == 1      \* ExportInfo Order, when given, is 1..MaxOrder
MaxEntries == 2     \* main is run while the checklist has fewer lines
MaxRepeats == 11    \* files of one tag in a session of many repeats

Tags == {"T1", "DTI"}          \* scan tags that occur in file names and configs
ScanExts == {".nii.gz", ".nii"}   \* extensions find_expected_files globs for
OtherExts == {".bvec"}            \* a file that is no scan

VARIABLES
    config,            \* config['Sites'][site]['ExportInfo'], as the sequence of its
                       \* entries in the dict's key order
    scandir,           \* the files of the subject's directory, in glob order
    argsort_ties,      \* how the build's quicksort orders equal keys
    exportinfo,        \* the table the last find_expected_files call returned
    outcome,           \* how the last find_expected_files call ended
    tag_counts,        \* tag_counts at the end of the last find_expected_files call
    prev_exportinfo,   \* the table and outcome of the call before the last one
    prev_outcome,
    report,            \* the content of qc_<subject>.html, NoFile when absent
    dispatched,        \* handler invocations of the last qc_subject run, in order
    qc_outcome,        \* how the last qc_subject run ended
    niftis,            \* Scan.niftis of the last Scan construction
    scan_outcome,      \* how the last Scan construction ended
    scan_message,      \* the files its ParseException names
    site_known,        \* whether config['Sites'] has the subject's site
    dcmdir,            \* the files of the subject's dicom directory, in glob order
    artifacts,         \* the files the QC tools have written to the QC directory
    tools_run,         \* the external commands the last run executed, in order
    log,               \* the messages the last run logged, in order
    REWRITE,           \* the globals main sets from --rewrite and --dry-run
    DRYRUN,
    checklist,         \* the first words of the lines of checklist.csv
    submitted,         \* the jobs the last batch run of main submitted
    called,            \* the operation that was called last
    dicoms,            \* Scan.dicoms, the two dicts and their keys
    nii_dict,
    dcm_dict,
    nii_tags,
    dcm_tags

inputVars == <<config, scandir, argsort_ties, site_known, dcmdir>>
callVars  == <<exportinfo, outcome, tag_counts, prev_exportinfo, prev_outcome>>
qcVars    == <<report, dispatched, qc_outcome, artifacts, tools_run, log>>
mainVars  == <<REWRITE, DRYRUN, checklist, submitted>>
scanVars  == <<niftis, scan_outcome, scan_message, dicoms, nii_dict, dcm_dict,
               nii_tags, dcm_tags>>

vars == <<inputVars, callVars, qcVars, mainVars, scanVars, called>>

\* ------------------------------------------------------------- conversions
\* str(n) of a non-negative int: its decimal digits, not padded
Digit(d) == CASE d = 0 -> "0" [] d = 1 -> "1" [] d = 2 -> "2" [] d = 3 -> "3"
              [] d = 4 -> "4" [] d = 5 -> "5" [] d = 6 -> "6" [] d = 7 -> "7"
              [] d = 8 -> "8" [] d = 9 -> "9"

RECURSIVE Str(_)
Str(n) == IF n < 10 THEN Digit(n) ELSE Str(n \div 10) \o Digit(n % 10)

\* --------------------------------------------------------------- the inputs
\* One ExportInfo entry: Count always, Order only when the config gives it.
ExportEntries ==
    {[tag |-> t, Count |-> c] : t \in Tags, c \in 0..MaxCount}
    \cup {[tag |-> t, Count |-> c, Order |-> o] :
            t \in Tags, c \in 0..MaxCount, o \in 1..MaxOrder}

Injective(s) == \A i, j \in DOMAIN s : i # j => s[i] # s[j]

\* The ExportInfo dicts: no tag twice, in any key order.
ExportInfos ==
    UNION {{m \in [1..n -> ExportEntries] : Injective([i \in 1..n |-> m[i].tag])} :
             n \in 0..Cardinality(Tags)}

\* What a directory entry can be: a scan file whose name parse_filename accepts
\* (it then has a tag and a series number), a scan file it rejects, another file.
FileKinds(exts, others) ==
    {[ext |-> e, ok |-> TRUE, tag |-> t, series |-> s] :
        e \in exts, t \in Tags, s \in 1..MaxSeries}
    \cup {[ext |-> e, ok |-> FALSE] : e \in exts}
    \cup {[ext |-> e, ok |-> FALSE] : e \in others}

\* The file name of the i-th entry: distinct entries have distinct names.
FileName(i, k) ==
    IF k.ok
    THEN "SUBJ_" \o k.tag \o "_" \o Str(k.series) \o "_d" \o Str(i) \o k.ext
    ELSE "misnamed" \o Str(i) \o k.ext

WithName(i, k) ==
    IF k.ok
    THEN [fn |-> FileName(i, k), ext |-> k.ext, ok |-> TRUE, tag |-> k.tag,
          series |-> k.series]
    ELSE [fn |-> FileName(i, k), ext |-> k.ext, ok |-> FALSE]

Listings(exts, others) ==
    UNION {{[i \in 1..n |-> WithName(i, ks[i])] :
              ks \in [1..n -> FileKinds(exts, others)]} : n \in 0..MaxFiles}

NoTable == <<[idx |-> -1]>>      \* no table was returned
NoFile  == <<[kind |-> "absent"]>>   \* the report file does not exist
NoCounts == [t \in {} |-> 0]

\* ------------------------------------------------------------ sort_scans
\* np.argsort(keys) with the default kind='quicksort': the indices that sort
\* keys ascending.  The sort is deterministic but not stable: numpy's quicksort
\* insertion-sorts a short array, which keeps equal keys in order, and
\* partitions a longer one, which swaps them.  argsort_ties stands for what the
\* build does with the equal keys of a run: it keeps their order or not.
TieBefore(i, j) == IF argsort_ties = "kept" THEN i < j ELSE i > j

\* index i goes before index j in the sorted order
Before(keys, i, j) == keys[i] < keys[j] \/ (keys[i] = keys[j] /\ TieBefore(i, j))

\* the indices 1..k of keys, sorted
RECURSIVE ArgSortUpTo(_, _)
ArgSortUpTo(keys, k) ==
    IF k = 0 THEN <<>>
    ELSE LET acc == ArgSortUpTo(keys, k - 1)
             p == Cardinality({q \in 1..Len(acc) : Before(keys, acc[q], k)})
         IN  SubSeq(acc, 1, p) \o <<k>> \o SubSeq(acc, p + 1, Len(acc))

ArgSort(keys) == ArgSortUpTo(keys, Len(keys))

\* glob.glob of the two patterns, '*.nii.gz' first: lines 157-160
Glob(dir) ==
    SelectSeq(dir, LAMBDA f : f.ext = ".nii.gz") \o
    SelectSeq(dir, LAMBDA f : f.ext = ".nii")

\* parse_filename raises on a name that does not follow the convention
ParseFails(filenames) == \E i \in DOMAIN filenames : ~filenames[i].ok

\* sort_scans on names that all parse: the names ordered by series number
SortScans(filenames) ==
    LET sorted_series == [i \in DOMAIN filenames |-> filenames[i].series]
        idx == ArgSort(sorted_series)
    IN  [r \in DOMAIN filenames |-> filenames[idx[r]]]

\* --------------------------------------------------- find_expected_files
Keys(cfg) == [i \in DOMAIN cfg |-> cfg[i].tag]              \* ExportInfo.keys()
InConfig(cfg, tag) == \E i \in DOMAIN cfg : cfg[i].tag = tag
Entry(cfg, tag) == cfg[CHOOSE i \in DOMAIN cfg : cfg[i].tag = tag]

\* a bug: the counters of the previous call are kept instead of starting at 0
InitTagCountsStale(cfg) ==
    [t \in {cfg[i].tag : i \in DOMAIN cfg} |->
        IF t \in DOMAIN tag_counts THEN tag_counts[t] ELSE 0]

\* lines 165-168: every tag of the config starts at 0
InitTagCounts(cfg) == [t \in {cfg[i].tag : i \in DOMAIN cfg} |-> 0]

\* lines 170-173: the Order of the config when it has one, else 0
ExpectedPosition(e) == IF "Order" \in DOMAIN e THEN e.Order ELSE 0

\* a bug: the ordinal zero-padded to two digits
BookmarkPadded(tag, count) == tag \o (IF count < 10 THEN "0" ELSE "") \o Str(count)

\* a bug: the bookmark taken before the counter is incremented
BookmarkZeroBased(tag, count) == tag \o Str(count - 1)

\* line 190
Bookmark(tag, count) == tag \o Str(count)

\* a bug: the last expected scan counted as a repeat
FoundNoteGe(count, expected_count) ==
    IF count >= expected_count THEN "Repeated Scan" ELSE ""

\* lines 191-194
FoundNote(count, expected_count) ==
    IF count > expected_count THEN "Repeated Scan" ELSE ""

\* a bug: the tag looked up in the first key of the config only
IsTabulatedFirstKey(cfg, tag) == Len(cfg) > 0 /\ cfg[1].tag = tag

\* line 184: only data that is defined in the config file is tabulated
IsTabulated(cfg, tag) == InConfig(cfg, tag)

\* lines 180-196, from file k on; st is [tag_counts, rows, idx]
RECURSIVE TabulateFound(_, _, _, _)
TabulateFound(cfg, allfiles, k, st) ==
    IF k > Len(allfiles) THEN st
    ELSE LET fn == allfiles[k]
             tag == fn.tag
         IN  IF ~IsTabulated(cfg, tag)
             THEN TabulateFound(cfg, allfiles, k + 1, st)
             ELSE LET e == Entry(cfg, tag)
                      count == st.tag_counts[tag] + 1
                      row == [idx |-> st.idx, tag |-> tag, File |-> fn.fn,
                              bookmark |-> Bookmark(tag, count),
                              Note |-> FoundNote(count, e.Count),
                              Sequence |-> ExpectedPosition(e)]
                  IN  TabulateFound(cfg, allfiles, k + 1,
                          [tag_counts |-> [st.tag_counts EXCEPT ![tag] = count],
                           rows |-> Append(st.rows, row),
                           idx |-> st.idx + 1])

\* a bug: a tag with nothing missing noted too
IsMissingLe(count, expected_count) == count <= expected_count

\* line 201
IsMissing(count, expected_count) == count < expected_count

\* a bug: the expected count noted instead of the deficit
MissingNoteFull(count, expected_count) == "missing(" \o Str(expected_count) \o ")"

\* line 203
MissingNote(count, expected_count) ==
    "missing(" \o Str(expected_count - count) \o ")"

\* lines 199-205, from config key k on
RECURSIVE NoteMissing(_, _, _)
NoteMissing(cfg, k, st) ==
    IF k > Len(cfg) THEN st
    ELSE LET e == cfg[k]
             count == st.tag_counts[e.tag]
         IN  IF IsMissing(count, e.Count)
             THEN NoteMissing(cfg, k + 1,
                      [st EXCEPT !.rows = Append(@,
                                     [idx |-> st.idx, tag |-> e.tag, File |-> "",
                                      bookmark |-> "",
                                      Note |-> MissingNote(count, e.Count),
                                      Sequence |-> ExpectedPosition(e)]),
                                 !.idx = @ + 1])
             ELSE NoteMissing(cfg, k + 1, st)

\* line 206, DataFrame.sort('Sequence'): the rows reordered by the column with
\* the default kind='quicksort'; every row keeps its index label
SortBySequence(rows) ==
    LET order == ArgSort([i \in DOMAIN rows |-> rows[i].Sequence])
    IN  [r \in DOMAIN rows |-> rows[order[r]]]

\* find_expected_files on files that all parse: [tag_counts, rows, idx] at return,
\* rows being the returned table
Reconcile(cfg, dir) ==
    LET allfiles == SortScans(Glob(dir))
        found == TabulateFound(cfg, allfiles, 1,
                     [tag_counts |-> InitTagCounts(cfg), rows |-> <<>>, idx |-> 0])
        all == NoteMissing(cfg, 1, found)
    IN  [all EXCEPT !.rows = SortBySequence(@)]

\* the call, as an operation on the state: lines 148-207
FindExpectedFilesCall ==
    /\ prev_exportinfo' = exportinfo
    /\ prev_outcome' = outcome
    /\ IF ParseFails(Glob(scandir))
       THEN /\ outcome' = "ParseException"        \* raised in sort_scans, line 141
            /\ exportinfo' = NoTable
            /\ tag_counts' = NoCounts
       ELSE IF ~site_known
       THEN /\ outcome' = "KeyError"        \* config['Sites'][site], line 167
            /\ exportinfo' = NoTable
            /\ tag_counts' = NoCounts
       ELSE \E r \in {Reconcile(config, scandir)} :       \* the locals at return
                /\ outcome' = "returned"
                /\ exportinfo' = r.rows
                /\ tag_counts' = r.tag_counts

FindExpectedFiles ==
    /\ called' = "find_expected_files"
    /\ FindExpectedFilesCall
    /\ UNCHANGED <<inputVars, qcVars, mainVars, scanVars>>

\* ----------------------------------------------------------- the QC tools
\* run(cmd), line 113: the command is executed unless DRYRUN is set
RunExecutes(dryrun) == ~dryrun

\* a bug: run raising on a nonzero return code
RunRaisesOnError(returncode) == returncode # 0

\* run(cmd), lines 116-119: a nonzero return code is logged, nothing is raised
RunRaises(returncode) == FALSE

\* dm.utils.run(cmd, dryrun=False) of datman/utils.py, as lines 347, 351 and
\* 619 use it: the command is executed unless the caller passes dryrun, and
\* (returncode, out, err) is returned, whatever the return code
UtilsRunExecutes(dryrun_arg) == ~dryrun_arg
UtilsRunRaises(returncode) == FALSE

\* the exit status of a tool run on the file name; broken holds the files the
\* tools of the run fail on
ReturnCode(name, broken) == IF name \in broken THEN 1 ELSE 0

\* os.path.join(qc_dir, nifti_basename(filename) + suffix)
Artifact(name, suffix) == [File |-> name, suffix |-> suffix]

\* os.path.join(qc_dir, 'header-diff.log'): line 507
HeaderDiff == [File |-> "", suffix |-> "header-diff.log"]

\* What a handler does, step by step: the artifact it looks for, the tool it
\* runs when the artifact is not there, and the function it runs the tool with.
\* anat_qc, lines 330-335
AnatQc == <<[artifact |-> ".png", tool |-> "slicer", via |-> "run"]>>

\* dti_qc, lines 337-357
DtiQc ==
    <<[artifact |-> "_stats.csv", tool |-> "qc-dti", via |-> "dm.utils.run"],
      [artifact |-> "_spikecount.csv", tool |-> "qc-spikecount", via |-> "dm.utils.run"],
      [artifact |-> "_b0.png", tool |-> "slicer", via |-> "run"]>>

\* phantom_anat_qc, lines 289-297
PhantomAnatQc ==
    <<[artifact |-> "_adni-contrasts.csv", tool |-> "qc-adni", via |-> "run"]>>

HandlerSteps(handler) ==
    CASE handler = "anat_qc" -> AnatQc
      [] handler = "dti_qc" -> DtiQc
      [] handler = "phantom_anat_qc" -> PhantomAnatQc

\* a bug: the tool run without looking for its artifact
ToolNeededAlways(files, artifact) == TRUE

\* 'if not os.path.isfile(output_file)' before each tool: lines 296, 333, 346,
\* 350, 354
ToolNeeded(files, artifact) == artifact \notin files

\* One tool invocation of a handler; st is the state of the run: the report
\* written so far, the handlers invoked, the artifacts in the QC directory,
\* the commands executed, the messages logged and the exception that is
\* propagating, if any.
Invoke(name, step, st, dryrun, broken) ==
    LET executes == IF step.via = "run" THEN RunExecutes(dryrun)
                                         ELSE UtilsRunExecutes(FALSE)
        returncode == ReturnCode(name, broken)
    IN  IF ~executes THEN st
        ELSE [st EXCEPT
                !.tools_run = Append(@, [tool |-> step.tool, File |-> name,
                                         artifact |-> step.artifact,
                                         returncode |-> returncode]),
                !.artifacts = IF returncode = 0
                              THEN @ \cup {Artifact(name, step.artifact)} ELSE @,
                !.log = IF returncode # 0
                        THEN Append(@, [level |-> "error", what |-> step.tool,
                                        File |-> name])
                        ELSE @,
                !.raised = IF IF step.via = "run" THEN RunRaises(returncode)
                                                  ELSE UtilsRunRaises(returncode)
                           THEN "CalledProcessError" ELSE ""]

\* the steps of a handler from step k on
RECURSIVE RunHandler(_, _, _, _, _, _)
RunHandler(name, steps, k, st, dryrun, broken) ==
    IF k > Len(steps) \/ st.raised # "" THEN st
    ELSE RunHandler(name, steps, k + 1,
             IF ToolNeeded(st.artifacts, Artifact(name, steps[k].artifact))
             THEN Invoke(name, steps[k], st, dryrun, broken)
             ELSE st,
             dryrun, broken)

\* the run at the start of qc_subject or qc_phantom
StartOfRun(rep, files) ==
    [report |-> rep, dispatched |-> <<>>, artifacts |-> files, tools_run |-> <<>>,
     log |-> <<>>, raised |-> ""]

\* ------------------------------------------------------------ qc_subject
\* HANDLERS, lines 418-453, for the tags of the model: 'ASL' has no handler
HandlerTags == {"T1", "DTI"}
Handler(tag) == IF tag = "T1" THEN "anat_qc" ELSE "dti_qc"

\* exportinfo.loc[label]: the row whose index label is label
Loc(table, label) == table[CHOOSE p \in DOMAIN table : table[p].idx = label]

\* the row qc_subject and write_table take at step row of their loops over
\* range(0, len(exportinfo)): lines 215-218 and 512-513
RowAtStep(table, row) == Loc(table, row)

\* write_table, lines 209-219
WriteTable(table) ==
    [i \in DOMAIN table |->
        LET r == RowAtStep(table, i - 1)
        IN  [kind |-> "tr", tag |-> r.tag, bookmark |-> r.bookmark,
             File |-> r.File, Note |-> r.Note]]

\* the standards config['paths']['std'] holds for the subject's site
StandardTags == {"T1"}

\* run_header_qc, lines 377-386, from the k-th dicom on
RECURSIVE HeaderSteps(_, _, _, _)
HeaderSteps(dcm, k, st, dryrun) ==
    IF k > Len(dcm) \/ st.raised # "" THEN st
    ELSE IF ~dcm[k].ok THEN [st EXCEPT !.raised = "ParseException"]   \* line 378
    ELSE IF dcm[k].tag \notin StandardTags \/ ~RunExecutes(dryrun)
    THEN HeaderSteps(dcm, k + 1, st, dryrun)
    ELSE HeaderSteps(dcm, k + 1,
             [st EXCEPT !.tools_run = Append(@, [tool |-> "qc-headers",
                                                 File |-> dcm[k].fn,
                                                 artifact |-> HeaderDiff.suffix,
                                                 returncode |-> 0]),
                        !.artifacts = @ \cup {HeaderDiff}],
             dryrun)

\* a bug: a handler looked up for a tag that has none
HasHandlerAlways(tag) == TRUE

\* 'tag in HANDLERS', line 520
HasHandler(tag) == tag \in HandlerTags

\* a bug: a missing-row taken for a file
IsFileRowAlways(name) == TRUE

\* 'if name != ""', line 514
IsFileRow(name) == name # ""

\* lines 512-527, from step k on
RECURSIVE QcScans(_, _, _, _, _)
QcScans(table, k, st, dryrun, broken) ==
    IF k >= Len(table) \/ st.raised # "" THEN st
    ELSE LET r == RowAtStep(table, k)
             name == r.File
         IN  IF ~IsFileRow(name)
             THEN QcScans(table, k + 1, st, dryrun, broken)
             ELSE LET h2 == [kind |-> "h2", tag |-> r.tag, bookmark |-> r.bookmark,
                             File |-> name, Note |-> ""]
                      images == [kind |-> Handler(r.tag), tag |-> r.tag,
                                 bookmark |-> "", File |-> name, Note |-> ""]
                  IN  IF ~HasHandler(r.tag)
                      THEN QcScans(table, k + 1,
                               [st EXCEPT !.report = Append(@, h2),
                                          !.log = Append(@, [level |-> "info",
                                                             what |-> "No QC tag",
                                                             File |-> name])],
                               dryrun, broken)
                      ELSE \* add_header_qc, lines 244-256, writes nothing: it
                           \* looks for the file stem in the characters of the
                           \* log's path
                           LET invoked == [st EXCEPT
                                            !.report = Append(@, h2),
                                            !.dispatched = Append(@,
                                                [handler |-> Handler(r.tag),
                                                 File |-> name])]
                               ran == RunHandler(name, HandlerSteps(Handler(r.tag)),
                                                 1, invoked, dryrun, broken)
                           IN  QcScans(table, k + 1,
                                   IF ran.raised # "" THEN ran
                                   ELSE [ran EXCEPT !.report = Append(@, images)],
                                   dryrun, broken)

ReportHead == <<[kind |-> "head", tag |-> "", bookmark |-> "", File |-> "", Note |-> ""]>>

\* a bug: an existing report regenerated whether or not --rewrite is given
ReportIsKeptNever(rep, rewrite) == FALSE

\* 'if os.path.isfile(report_name) and not REWRITE': line 459
ReportIsKept(rep, rewrite) == rep # NoFile /\ ~rewrite

\* lines 505-530 of qc_subject: the header check, the scans, the close
QcPipeline(table, dcm, st, dryrun, broken) ==
    IF HeaderDiff \in st.artifacts
    THEN QcScans(table, 0, st, dryrun, broken)
    ELSE IF dcm = <<>>
    THEN [st EXCEPT !.raised = "IndexError"]                  \* dicoms[0], line 369
    ELSE QcScans(table, 0, HeaderSteps(dcm, 1, st, dryrun), dryrun, broken)

\* qc_subject, lines 455-530, with rep the report file the call finds, and
\* rewrite and dryrun the globals REWRITE and DRYRUN.  A report the call
\* leaves open is flushed when the process exits.
QcSubjectCall(rep, rewrite, dryrun, broken) ==
    IF ReportIsKept(rep, rewrite)
    THEN /\ qc_outcome' = "skipped"                    \* lines 459-461
         /\ report' = rep
         /\ dispatched' = <<>> /\ tools_run' = <<>> /\ log' = <<>>
         /\ UNCHANGED <<callVars, artifacts>>
    ELSE /\ FindExpectedFilesCall                      \* line 492
         /\ IF outcome' # "returned"
            THEN /\ qc_outcome' = outcome'
                 /\ report' = ReportHead               \* lines 466-490 were written
                 /\ dispatched' = <<>> /\ tools_run' = <<>> /\ log' = <<>>
                 /\ UNCHANGED artifacts
            ELSE \E done \in {QcPipeline(exportinfo', dcmdir,
                                  StartOfRun(ReportHead \o WriteTable(exportinfo'),
                                             artifacts),
                                  dryrun, broken)} :
                     /\ qc_outcome' = IF done.raised # "" THEN done.raised
                                                          ELSE "returned"
                     /\ report' = done.report
                     /\ dispatched' = done.dispatched
                     /\ artifacts' = done.artifacts
                     /\ tools_run' = done.tools_run
                     /\ log' = done.log

\* what the tools of a run can fail on: nothing, or one of the files
Breakable == {{}} \cup {{scandir[i].fn} : i \in DOMAIN scandir}

\* qc_subject called with the globals as they are
QcSubject(rewrite, broken) ==
    /\ called' = "qc_subject"
    /\ REWRITE' = rewrite
    /\ DRYRUN' = FALSE
    /\ QcSubjectCall(report, rewrite, FALSE, broken)
    /\ UNCHANGED <<inputVars, checklist, submitted, scanVars>>

\* ------------------------------------------------------------ qc_phantom
\* HANDLERS of qc_phantom, lines 395-399, for the tags of the model
PhantomHandlerTags == {"T1"}
PhantomHandler(tag) == "phantom_anat_qc"

\* lines 406-411, from the k-th nifti on
RECURSIVE QcPhantomScans(_, _, _, _, _)
QcPhantomScans(files, k, st, dryrun, broken) ==
    IF k > Len(files) \/ st.raised # "" THEN st
    ELSE IF ~files[k].ok THEN [st EXCEPT !.raised = "ParseException"]   \* line 407
    ELSE IF files[k].tag \notin PhantomHandlerTags
    THEN QcPhantomScans(files, k + 1,
             [st EXCEPT !.log = Append(@, [level |-> "info", what |-> "No QC tag",
                                           File |-> files[k].fn])],
             dryrun, broken)
    ELSE QcPhantomScans(files, k + 1,
             RunHandler(files[k].fn, HandlerSteps(PhantomHandler(files[k].tag)), 1,
                        [st EXCEPT !.dispatched = Append(@,
                            [handler |-> PhantomHandler(files[k].tag),
                             File |-> files[k].fn])],
                        dryrun, broken),
             dryrun, broken)

\* qc_phantom, lines 389-411: the directory is taken as a phantom's; no report
\* is written
QcPhantom(dryrun, broken) ==
    /\ called' = "qc_phantom"
    /\ DRYRUN' = dryrun
    /\ \E done \in {QcPhantomScans(SelectSeq(scandir, LAMBDA f : f.ext = ".nii.gz"),
                                   1, StartOfRun(report, artifacts), dryrun, broken)} :
           /\ qc_outcome' = IF done.raised # "" THEN done.raised ELSE "phantom"
           /\ dispatched' = done.dispatched
           /\ artifacts' = done.artifacts
           /\ tools_run' = done.tools_run
           /\ log' = done.log
    /\ UNCHANGED <<inputVars, callVars, report, REWRITE, checklist, submitted,
                   scanVars>>

\* ------------------------------------------------------------------- main
EmptyFile == <<>>                 \* the content of a file of size 0

\* lines 563-569: the files of size 0 under the subject's QC directory removed
RemoveEmpty(rep) == IF rep = EmptyFile THEN NoFile ELSE rep

\* report_name: os.path.join(qc_dir, 'qc_{}.html'.format(subject)), line 457
ReportName == [dirname |-> "qc/SUBJ", stem |-> "qc_SUBJ", ext |-> "html"]

\* '.'.join(report_name.split('.')[:-1]), line 584: the path without '.html'
WithoutExtension(path) == path.dirname \o "/" \o path.stem

\* os.path.basename of the path without its extension, line 589
Basename(path) == path.stem

\* lines 582-590, lines being the first words of the checklist's lines
AddToChecklist(lines) ==
    LET report_name == WithoutExtension(ReportName)
        found_reports == {lines[i] : i \in DOMAIN lines}
    IN  IF report_name \notin found_reports
        THEN Append(lines, Basename(ReportName))
        ELSE lines

\* main for one subject, lines 532-590, the subject being no phantom
Main(rewrite, dryrun, broken) ==
    /\ Len(checklist) < MaxEntries
    /\ called' = "main"
    /\ REWRITE' = rewrite
    /\ DRYRUN' = dryrun
    /\ QcSubjectCall(RemoveEmpty(report), rewrite, dryrun, broken)
    /\ checklist' = IF qc_outcome' = "returned"              \* 'if report_name:'
                    THEN AddToChecklist(checklist)
                    ELSE checklist
    /\ submitted' = <<>>
    /\ UNCHANGED <<inputVars, scanVars>>

\* main in batch mode, lines 592-625: one job for each directory under nii_dir,
\* here the subject's
MainBatch(rewrite, dryrun) ==
    /\ called' = "main in batch mode"
    /\ REWRITE' = rewrite
    /\ DRYRUN' = dryrun
    /\ submitted' = IF UtilsRunExecutes(dryrun)
                    THEN <<[subject |-> "SUBJ", rewrite |-> rewrite]>>
                    ELSE <<>>
    /\ UNCHANGED <<inputVars, callVars, qcVars, checklist, scanVars>>

\* The operator repairs what made the last run fail: the site is added to the
\* configuration, the misnamed scans are taken away, the dicoms are exported.
FixCause(cfg, dcm) ==
    /\ qc_outcome \in {"ParseException", "KeyError", "IndexError"}
    /\ called' = "repair"
    /\ site_known' = TRUE
    /\ config' = IF site_known THEN config ELSE cfg
    /\ scandir' = SelectSeq(scandir, LAMBDA f : f.ok)
    /\ dcmdir' = IF dcmdir = <<>> THEN dcm ELSE dcmdir
    /\ argsort_ties' = argsort_ties
    /\ UNCHANGED <<callVars, qcVars, mainVars, scanVars>>

\* ------------------------------------------------- Scan.__get_series
\* the items of the directory with an extension of ext_list: lines 225-226
WithExtension(dir, ext_list) == SelectSeq(dir, LAMBDA item : item.ext \in ext_list)

\* a bug: a misnamed item skipped without being recorded
BadlyNamedDropped(items) == SubSeq(items, 1, 0)

\* lines 227-231: the items Series() raises ParseException for
BadlyNamed(items) == SelectSeq(items, LAMBDA item : ~item.ok)

\* lines 228, 232
SeriesList(items) == SelectSeq(items, LAMBDA item : item.ok)

NoDict == [t \in {} |-> <<>>]

\* self.niftis = self.__get_series(self.nii_path, ['.nii', '.nii.gz']): line 162
ScanGetSeries ==
    LET items == WithExtension(scandir, {".nii", ".nii.gz"})
        badly_named == BadlyNamed(items)
    IN  /\ called' = "Scan.__get_series"
        /\ IF badly_named # <<>>                       \* lines 233-235
           THEN /\ scan_outcome' = "ParseException"
                /\ scan_message' = [i \in DOMAIN badly_named |-> badly_named[i].fn]
                /\ niftis' = <<>>
           ELSE /\ scan_outcome' = "returned"
                /\ scan_message' = <<>>
                /\ niftis' = SeriesList(items)
        /\ UNCHANGED <<inputVars, callVars, qcVars, mainVars, dicoms, nii_dict,
                       dcm_dict, nii_tags, dcm_tags>>

\* ------------------------------------------------------------------ Scan
\* a bug: a later series of a tag replacing the earlier ones
WithSeriesAlone(tag_dict, series) ==
    [t \in DOMAIN tag_dict \cup {series.tag} |->
        IF t = series.tag THEN <<series>> ELSE tag_dict[t]]

\* lines 241-245: the series appended to the list of its tag, a list of its
\* own when the tag is new
WithSeries(tag_dict, series) ==
    [t \in DOMAIN tag_dict \cup {series.tag} |->
        IF t # series.tag THEN tag_dict[t]
        ELSE IF t \in DOMAIN tag_dict THEN Append(tag_dict[t], series)
        ELSE <<series>>]

\* __make_dict, lines 238-246, over the first k series of the list
RECURSIVE MakeDictUpTo(_, _)
MakeDictUpTo(series_list, k) ==
    IF k = 0 THEN NoDict
    ELSE WithSeries(MakeDictUpTo(series_list, k - 1), series_list[k])

MakeDict(series_list) == MakeDictUpTo(series_list, Len(series_list))

\* get_tagged_nii and get_tagged_dcm, lines 171-183
GetTagged(tag_dict, tag) == IF tag \in DOMAIN tag_dict THEN tag_dict[tag] ELSE <<>>
GetTaggedNii(tag) == GetTagged(nii_dict, tag)
GetTaggedDcm(tag) == GetTagged(dcm_dict, tag)

\* Scan.__init__, lines 162-169
ScanInit ==
    LET nii_items == WithExtension(scandir, {".nii", ".nii.gz"})
        dcm_items == WithExtension(dcmdir, {".dcm"})
        badly_named == IF BadlyNamed(nii_items) # <<>> THEN BadlyNamed(nii_items)
                       ELSE BadlyNamed(dcm_items)
    IN  /\ called' = "Scan"
        /\ IF badly_named # <<>>
           THEN /\ scan_outcome' = "ParseException"
                /\ scan_message' = [i \in DOMAIN badly_named |-> badly_named[i].fn]
                /\ niftis' = <<>> /\ dicoms' = <<>>
                /\ nii_dict' = NoDict /\ dcm_dict' = NoDict
                /\ nii_tags' = {} /\ dcm_tags' = {}
           ELSE /\ scan_outcome' = "constructed"
                /\ scan_message' = <<>>
                /\ niftis' = SeriesList(nii_items)
                /\ dicoms' = SeriesList(dcm_items)
                /\ nii_dict' = MakeDict(niftis')
                /\ dcm_dict' = MakeDict(dicoms')
                /\ nii_tags' = DOMAIN nii_dict'
                /\ dcm_tags' = DOMAIN dcm_dict'
        /\ UNCHANGED <<inputVars, callVars, qcVars, mainVars>>

\* --------------------------------------------------------- specifications
NothingRun ==
    /\ exportinfo = NoTable /\ outcome = "none" /\ tag_counts = NoCounts
    /\ prev_exportinfo = NoTable /\ prev_outcome = "none"
    /\ dispatched = <<>> /\ qc_outcome = "none" /\ called = "none"
    /\ niftis = <<>> /\ scan_outcome = "none" /\ scan_message = <<>>
    /\ artifacts = {} /\ tools_run = <<>> /\ log = <<>>
    /\ REWRITE = FALSE /\ DRYRUN = FALSE /\ checklist = <<>> /\ submitted = <<>>
    /\ dicoms = <<>> /\ nii_dict = NoDict /\ dcm_dict = NoDict
    /\ nii_tags = {} /\ dcm_tags = {}

Fresh == NothingRun /\ report = NoFile

\* the subject's dicom directory with the dicom of one T1 series
OneDicom == <<WithName(1, [ext |-> ".dcm", ok |-> TRUE, tag |-> "T1", series |-> 1])>>

\* the site is in the configuration and the dicoms were exported
Configured == site_known = TRUE /\ dcmdir = OneDicom

\* find_expected_files on a directory of well-named nifti files, any config
GoodListings == {d \in Listings({".nii.gz"}, {}) : ~ParseFails(d)}

Init ==
    /\ config \in ExportInfos
    /\ scandir \in GoodListings
    /\ argsort_ties \in {"kept", "reversed"}
    /\ Configured
    /\ Fresh

Next == FindExpectedFiles

Spec == Init /\ [][Next]_vars

\* qc_subject on a directory of nifti files, some of them possibly misnamed
InitQc ==
    /\ config \in ExportInfos
    /\ scandir \in Listings({".nii.gz"}, {})
    /\ argsort_ties \in {"kept", "reversed"}
    /\ Configured
    /\ Fresh

\* with tools that succeed
NextQc == \E rewrite \in BOOLEAN : QcSubject(rewrite, {})

SpecQc == InitQc /\ [][NextQc]_vars

\* a directory that also holds .nii files and files that are no scans
ScanConfigs ==
    {m \in ExportInfos :
        Len(m) <= 1 /\ \A i \in DOMAIN m : m[i].Count = 1 /\ "Order" \notin DOMAIN m[i]}

InitScan ==
    /\ config \in ScanConfigs
    /\ scandir \in Listings(ScanExts, OtherExts)
    /\ argsort_ties \in {"kept", "reversed"}
    /\ Configured
    /\ Fresh

NextScan ==
    \/ FindExpectedFiles
    \/ ScanGetSeries

SpecScan == InitScan /\ [][NextScan]_vars

\* The runs of a subject: a site expects some of the three tags T1, DTI and
\* ASL, each once; a subject has at most one scan of a tag and no series
\* number twice.
QcTags == {"T1", "DTI", "ASL"}

QcEntries ==
    <<[tag |-> "T1", Count |-> 1], [tag |-> "DTI", Count |-> 1, Order |-> 1],
      [tag |-> "ASL", Count |-> 1]>>

QcConfigs == {SelectSeq(QcEntries, LAMBDA e : e.tag \in S) : S \in SUBSET QcTags}

QcKinds ==
    {[ext |-> ".nii.gz", ok |-> TRUE, tag |-> t, series |-> s] :
        t \in QcTags, s \in 1..MaxSeries}
    \cup {[ext |-> ".nii.gz", ok |-> FALSE]}

OneOfEach(ks) ==
    \A i, j \in DOMAIN ks :
        i # j /\ ks[i].ok /\ ks[j].ok
            => ks[i].tag # ks[j].tag /\ ks[i].series # ks[j].series

QcListings ==
    UNION {{[i \in 1..n |-> WithName(i, ks[i])] :
              ks \in {k \in [1..n -> QcKinds] : OneOfEach(k)}} : n \in 0..MaxFiles}

\* the dicom directory: empty, or with the dicom of a series that has a
\* standard, or of one that has none
DcmListings ==
    {<<>>, OneDicom,
     <<WithName(1, [ext |-> ".dcm", ok |-> TRUE, tag |-> "DTI", series |-> 1])>>}

\* qc_subject and qc_phantom without --dry-run, with tools that fail on one
\* of the files
InitDispatch ==
    /\ config \in QcConfigs
    /\ scandir \in QcListings
    /\ argsort_ties = "kept"
    /\ site_known = TRUE
    /\ dcmdir \in DcmListings
    /\ Fresh

NextDispatch ==
    \/ \E rewrite \in BOOLEAN : \E broken \in Breakable : QcSubject(rewrite, broken)
    \/ \E broken \in Breakable : QcPhantom(FALSE, broken)

SpecDispatch == InitDispatch /\ [][NextDispatch]_vars

\* the configurations of the runs of main: T1 alone, or T1 and DTI
MainConfigs == {m \in QcConfigs : Len(m) >= 1 /\ m[1].tag = "T1"
                                  /\ \A i \in DOMAIN m : m[i].tag # "ASL"}

\* the files of the QC directory before the first run: none, or a report of
\* size 0 that a killed run left
InitMain ==
    /\ \/ site_known = TRUE /\ config \in MainConfigs
       \/ site_known = FALSE /\ config = <<>>
    /\ scandir \in QcListings
    /\ argsort_ties = "kept"
    /\ dcmdir \in {<<>>, OneDicom}
    /\ report \in {NoFile, EmptyFile}
    /\ NothingRun

NextMain ==
    \/ \E rewrite, dryrun \in BOOLEAN : Main(rewrite, dryrun, {})
    \/ \E rewrite, dryrun \in BOOLEAN : MainBatch(rewrite, dryrun)
    \/ \E cfg \in MainConfigs : FixCause(cfg, OneDicom)

SpecMain == InitMain /\ [][NextMain]_vars

\* the construction of a Scan over a nifti and a dicom directory
InitTagged ==
    /\ config = <<>>
    /\ scandir \in Listings({".nii.gz"}, {})
    /\ argsort_ties = "kept"
    /\ site_known = TRUE
    /\ dcmdir \in Listings({".dcm"}, {})
    /\ Fresh

NextTagged == ScanInit

SpecTagged == InitTagged /\ [][NextTagged]_vars

\* a session in which one scan was repeated many times: the tags T and T1,
\* of which the manifest has any, T1 being T followed by a digit
AnchorTags == {"T", "T1"}

AnchorEntries == {[tag |-> t, Count |-> c] : t \in AnchorTags, c \in 0..MaxCount}

AnchorConfigs ==
    UNION {{m \in [1..n -> AnchorEntries] : Injective([i \in 1..n |-> m[i].tag])} :
             n \in 0..Cardinality(AnchorTags)}

\* n files of the series 1..n, all of tag T but the p-th, which is of tag T1
\* (all of tag T when p is 0)
Session(n, p) ==
    [i \in 1..n |-> WithName(i, [ext |-> ".nii.gz", ok |-> TRUE,
                                 tag |-> IF i = p THEN "T1" ELSE "T",
                                 series |-> i])]

AnchorListings == {Session(n, p) : n \in 0..(MaxRepeats + 1), p \in 0..(MaxRepeats + 1)}

InitAnchors ==
    /\ config \in AnchorConfigs
    /\ scandir \in AnchorListings
    /\ argsort_ties \in {"kept", "reversed"}
    /\ Configured
    /\ Fresh

NextAnchors ==
    \/ FindExpectedFiles
    \/ QcSubject(TRUE, {})

SpecAnchors == InitAnchors /\ [][NextAnchors]_vars

\* ------------------------------------------------------------- properties
\* What the properties are stated in, taken from the inputs alone.
ConfigTags == {config[i].tag : i \in DOMAIN config}
ScanFiles == {i \in DOMAIN scandir : scandir[i].ext \in ScanExts}
FilesWithTag(t) == {i \in ScanFiles : scandir[i].ok /\ scandir[i].tag = t}
Acquired(t) == Cardinality(FilesWithTag(t))
ExpectedCount(t) == Entry(config, t).Count
Returned == outcome = "returned"
Rows == DOMAIN exportinfo
IsReal(r) == r.File # ""
RealRows == {p \in Rows : IsReal(exportinfo[p])}
MissingRows == {p \in Rows : ~IsReal(exportinfo[p])}
FileOf(r) == scandir[CHOOSE i \in DOMAIN scandir : scandir[i].fn = r.File]

\* C1: the table holds exactly one real-file row for each file whose tag is in
\* the config, no row for a file whose tag is not, and besides those only
\* missing-rows: as many rows as there are files with a tag of the config plus
\* tags of the config with fewer files than expected.
C1_RowsOfTable ==
    Returned =>
        /\ \A i \in ScanFiles :
              Cardinality({p \in Rows : exportinfo[p].File = scandir[i].fn})
                 = IF scandir[i].tag \in ConfigTags THEN 1 ELSE 0
        /\ \A p \in RealRows :
              \E i \in ScanFiles : /\ scandir[i].fn = exportinfo[p].File
                                   /\ scandir[i].tag = exportinfo[p].tag
        /\ Len(exportinfo)
              = Cardinality({i \in ScanFiles : scandir[i].tag \in ConfigTags})
                + Cardinality({t \in ConfigTags : Acquired(t) < ExpectedCount(t)})

\* a table with a row of a file, a file left out of it and a missing-row
C1_Witness ==
    /\ Returned
    /\ RealRows # {} /\ MissingRows # {}
    /\ \E i \in ScanFiles : scandir[i].tag \notin ConfigTags

\* The ordinal of a real-file row: the rows of its tag emitted up to and including
\* it.  The index label of a row is its place in the order of emission.
Ordinal(p) ==
    Cardinality({q \in RealRows : /\ exportinfo[q].tag = exportinfo[p].tag
                                  /\ exportinfo[q].idx <= exportinfo[p].idx})

\* real-file rows are emitted in ascending order of series number
EmittedBySeries ==
    \A p, q \in RealRows :
        FileOf(exportinfo[p]).series < FileOf(exportinfo[q]).series
            => exportinfo[p].idx < exportinfo[q].idx

\* C2: a real-file row is marked 'Repeated Scan' if and only if its ordinal, in
\* ascending order of series number, is greater than the expected count of its
\* tag, and carries no note otherwise.
C2_RepeatedIffBeyondCount ==
    Returned =>
        /\ EmittedBySeries
        /\ \A p \in RealRows :
              exportinfo[p].Note =
                 IF Ordinal(p) > ExpectedCount(exportinfo[p].tag)
                 THEN "Repeated Scan" ELSE ""

\* a tag with its expected file without a note and a further file marked, and
\* a tag expected 0 times whose first file is marked
C2_Witness ==
    /\ Returned
    /\ \E p, q \in RealRows :
          /\ exportinfo[p].tag = exportinfo[q].tag
          /\ exportinfo[p].Note = "" /\ exportinfo[q].Note = "Repeated Scan"

C2_WitnessCountZero ==
    /\ Returned
    /\ \E p \in RealRows : /\ ExpectedCount(exportinfo[p].tag) = 0
                           /\ Ordinal(p) = 1
                           /\ exportinfo[p].Note = "Repeated Scan"

\* C3: a tag of the config has at most one missing-row; it has one if and only
\* if its expected count exceeds the number of its files, and the row's note is
\* missing(expected - acquired), its file name and bookmark empty.
C3_MissingRows ==
    Returned =>
        /\ \A p \in MissingRows : exportinfo[p].tag \in ConfigTags
        /\ \A t \in ConfigTags :
              LET rows == {p \in MissingRows : exportinfo[p].tag = t}
                  deficit == ExpectedCount(t) - Acquired(t)
              IN  /\ Cardinality(rows) = IF deficit > 0 THEN 1 ELSE 0
                  /\ \A p \in rows :
                        /\ exportinfo[p].Note = "missing(" \o Str(deficit) \o ")"
                        /\ exportinfo[p].File = ""
                        /\ exportinfo[p].bookmark = ""

\* a tag short of one file of two, and a tag expected 0 times without a row
C3_Witness ==
    /\ Returned
    /\ \E p \in MissingRows :
          /\ Acquired(exportinfo[p].tag) = 1
          /\ ExpectedCount(exportinfo[p].tag) = 2
    /\ \E t \in ConfigTags : ExpectedCount(t) = 0 /\ Acquired(t) = 0

\* Where a row was emitted, as C4 states it: real-file rows in ascending series
\* number, files of one series number in the order of discovery, then
\* missing-rows in the order of the config.
Discovery(r) == CHOOSE i \in DOMAIN Glob(scandir) : Glob(scandir)[i].fn = r.File
ConfigPlace(r) == CHOOSE i \in DOMAIN config : config[i].tag = r.tag
EmittedBefore(a, b) ==
    IF IsReal(a) /\ IsReal(b)
    THEN \/ FileOf(a).series < FileOf(b).series
         \/ FileOf(a).series = FileOf(b).series /\ Discovery(a) < Discovery(b)
    ELSE IF ~IsReal(a) /\ ~IsReal(b)
         THEN ConfigPlace(a) < ConfigPlace(b)
         ELSE IsReal(a)

\* the table is non-decreasing in Sequence
SortedBySequence ==
    \A p, q \in Rows : p < q => exportinfo[p].Sequence <= exportinfo[q].Sequence

\* C4: the returned table is non-decreasing in order_key and rows of equal
\* order_key stand in their order of emission, the two sorts being stable.
C4_StableOrder ==
    Returned =>
        /\ SortedBySequence
        /\ \A p, q \in Rows :
              p < q /\ exportinfo[p].Sequence = exportinfo[q].Sequence
                 => EmittedBefore(exportinfo[p], exportinfo[q])

\* what holds of the order whatever the sort does with equal keys
C4_SortedOnly == Returned => SortedBySequence /\ EmittedBySeries

\* The files of the sections written to the report and of the handler calls, in
\* the order qc_subject made them, and the files of the table's rows in its order.
SectionFiles ==
    LET h2 == SelectSeq(report, LAMBDA e : e.kind = "h2")
    IN  [i \in DOMAIN h2 |-> h2[i].File]
DispatchedFiles == [i \in DOMAIN dispatched |-> dispatched[i].File]
TableFiles ==
    LET real == SelectSeq(exportinfo, IsReal)
    IN  [i \in DOMAIN real |-> real[i].File]

\* C5: qc_subject writes the sections and calls the handlers in the order of
\* the rows of the sorted table, ascending order_key whatever the acquisition
\* order.
\* (Stated for a build whose sort keeps equal keys in order, so that the order of
\* the table is the one C4 describes.)
C5_ProcessedInTableOrder ==
    qc_outcome = "returned" /\ argsort_ties = "kept" =>
        /\ SectionFiles = TableFiles
        /\ DispatchedFiles = TableFiles

\* what qc_subject does: the rows are taken by index label, the order of emission
C5_ProcessedInEmissionOrder ==
    qc_outcome = "returned" =>
        \A i, j \in DOMAIN SectionFiles :
            i < j => \E p, q \in RealRows :
                        /\ exportinfo[p].File = SectionFiles[i]
                        /\ exportinfo[q].File = SectionFiles[j]
                        /\ exportinfo[p].idx < exportinfo[q].idx

\* the example of the claim: DTI of order 1 listed first, T1 of order 0 listed
\* second with the smaller series number
C5_Example ==
    (/\ qc_outcome = "returned"
     /\ Len(scandir) = 2
     /\ scandir[1].tag = "DTI" /\ scandir[2].tag = "T1"
     /\ scandir[2].series < scandir[1].series
     /\ ConfigTags = {"T1", "DTI"}
     /\ \A t \in ConfigTags : ExpectedCount(t) = 1
     /\ ExpectedPosition(Entry(config, "T1")) = 0
     /\ ExpectedPosition(Entry(config, "DTI")) = 1)
    => /\ Len(SectionFiles) = 2
       /\ FileOf([File |-> SectionFiles[1]]).tag = "T1"
       /\ FileOf([File |-> SectionFiles[2]]).tag = "DTI"

\* C6: the bookmark of a real-file row is its tag followed by the unpadded
\* decimal ordinal of the file among the files of its tag in ascending series
\* order; a tag with n files uses the ordinals 1..n, each once, whatever its
\* expected count.
C6_BookmarkIsTagAndOrdinal ==
    Returned =>
        /\ \A p \in RealRows :
              LET r == exportinfo[p]
                  same == FilesWithTag(r.tag)
                  lower == Cardinality({i \in same :
                                          scandir[i].series < FileOf(r).series})
                  upper == Cardinality({i \in same :
                                          scandir[i].series <= FileOf(r).series})
              IN  \E o \in (lower + 1)..upper : r.bookmark = r.tag \o Str(o)
        /\ \A t \in ConfigTags :
              LET rows == {p \in RealRows : exportinfo[p].tag = t}
              IN  /\ Cardinality(rows) = Acquired(t)
                  /\ {exportinfo[p].bookmark : p \in rows}
                        = {t \o Str(o) : o \in 1..Acquired(t)}

\* two files of a tag that is expected 0 times
C6_Witness ==
    /\ Returned
    /\ \E t \in ConfigTags :
          /\ Acquired(t) = 2 /\ ExpectedCount(t) = 0
          /\ \E p, q \in RealRows : /\ exportinfo[p].bookmark = t \o "1"
                                    /\ exportinfo[q].bookmark = t \o "2"
                                    /\ FileOf(exportinfo[p]).series
                                          < FileOf(exportinfo[q]).series

\* the input of C7: the config {T1: Count 1} and two T1 files of series 1 and 2
C7_Input ==
    /\ Len(config) = 1 /\ config[1].tag = "T1" /\ config[1].Count = 1
    /\ Len(scandir) = 2
    /\ \A i \in DOMAIN scandir : scandir[i].tag = "T1"
    /\ {scandir[i].series : i \in DOMAIN scandir} = {1, 2}

\* C7 as claimed: row 1 has no note and bookmark 'T1_1', row 2 is Repeated with
\* bookmark 'T1_2'.  (Stated for a build whose sort keeps equal keys in order:
\* the two rows have the same order_key.)
C7_UnderscoreBookmarks ==
    Returned /\ C7_Input /\ argsort_ties = "kept" =>
        /\ Len(exportinfo) = 2
        /\ exportinfo[1].Note = "" /\ exportinfo[1].bookmark = "T1_1"
        /\ exportinfo[2].Note = "Repeated Scan" /\ exportinfo[2].bookmark = "T1_2"

\* C7 as amended: the first row emitted (index label 0) is the file of series 1
\* with no note and bookmark 'T11', the second (index label 1) the file of
\* series 2, Repeated, with bookmark 'T12': the tag directly followed by the
\* ordinal.
C7_RepeatedScanExample ==
    Returned /\ C7_Input =>
        /\ Len(exportinfo) = 2
        /\ FileOf(Loc(exportinfo, 0)).series = 1
        /\ Loc(exportinfo, 0).Note = "" /\ Loc(exportinfo, 0).bookmark = "T11"
        /\ FileOf(Loc(exportinfo, 1)).series = 2
        /\ Loc(exportinfo, 1).Note = "Repeated Scan"
        /\ Loc(exportinfo, 1).bookmark = "T12"

\* the table of that input, the file of series 2 found first
C7_Witness == Returned /\ C7_Input /\ scandir[1].series = 2

C9_OneMissingRowPerTag ==
    Returned /\ ScanFiles = {} /\ config # <<>> =>
        /\ RealRows = {}
        /\ \A t \in ConfigTags :
              /\ Cardinality({p \in Rows : exportinfo[p].tag = t}) = 1
              /\ \A p \in Rows :
                    exportinfo[p].tag = t =>
                       exportinfo[p].Note = "missing(" \o Str(ExpectedCount(t)) \o ")"

\* C9 as amended: exactly one for every tag of the config that is expected at
\* least once, and none for a tag expected 0 times.
C9_OneMissingRowPerExpectedTag ==
    Returned /\ ScanFiles = {} /\ config # <<>> =>
        /\ RealRows = {}
        /\ \A p \in Rows : exportinfo[p].tag \in ConfigTags
        /\ \A t \in ConfigTags :
              /\ Cardinality({p \in Rows : exportinfo[p].tag = t})
                    = IF ExpectedCount(t) > 0 THEN 1 ELSE 0
              /\ \A p \in Rows :
                    exportinfo[p].tag = t =>
                       exportinfo[p].Note = "missing(" \o Str(ExpectedCount(t)) \o ")"

\* no file, a tag expected twice and a tag expected 0 times
C9_Witness ==
    /\ Returned /\ ScanFiles = {}
    /\ \E t, u \in ConfigTags : ExpectedCount(t) = 2 /\ ExpectedCount(u) = 0
    /\ Len(exportinfo) = 1

\* C10: a scan file whose name does not parse is not dropped: with one in the
\* listing find_expected_files raises the parse error and returns no table,
\* and Scan.__get_series raises a ParseException that names every misnamed
\* file; a series list that is returned holds every scan file of the directory.
MisnamedScans == {i \in ScanFiles : ~scandir[i].ok}

C10_MisnamedNeverDropped ==
    /\ outcome # "none" /\ MisnamedScans # {} =>
          outcome = "ParseException" /\ exportinfo = NoTable
    /\ scan_outcome # "none" /\ MisnamedScans # {} =>
          /\ scan_outcome = "ParseException"
          /\ {scan_message[i] : i \in DOMAIN scan_message}
                = {scandir[i].fn : i \in MisnamedScans}
          /\ Len(scan_message) = Cardinality(MisnamedScans)
    /\ scan_outcome = "returned" =>
          /\ {niftis[i].fn : i \in DOMAIN niftis} = {scandir[i].fn : i \in ScanFiles}
          /\ Len(niftis) = Cardinality(ScanFiles)
    /\ outcome = "returned" =>
          \A i \in ScanFiles :
              scandir[i].tag \in ConfigTags =>
                  \E p \in Rows : exportinfo[p].File = scandir[i].fn

\* both operations have raised on a directory with a well-named and a misnamed scan
C10_Witness ==
    /\ outcome = "ParseException" /\ scan_outcome = "ParseException"
    /\ Len(scan_message) = 1
    /\ \E i \in ScanFiles : scandir[i].ok

\* ------------------------------------------------- the runs of a subject
\* C11: when the subject's site is not in the configuration the run fails and
\* writes no partial report: a qc_subject call that ends in the KeyError of
\* the missing site leaves no report file that was not there before the call.
C11_NoPartialReport ==
    [][(called' = "main" /\ qc_outcome' = "KeyError" /\ report = NoFile)
          => report' = NoFile]_vars

\* the rows of the table whose file qc_subject hands to a handler
DispatchableRows == {p \in RealRows : exportinfo[p].tag \in HandlerTags}

\* the commands of the last run that returned a nonzero code
FailedTools == {i \in DOMAIN tools_run : tools_run[i].returncode # 0}

\* the failure of the i-th command is in the log
Logged(i) ==
    \E j \in DOMAIN log :
        log[j] = [level |-> "error", what |-> tools_run[i].tool,
                  File |-> tools_run[i].File]

\* the report has the section of the file
HasSection(name) ==
    \E i \in DOMAIN report : report[i].kind = "h2" /\ report[i].File = name

\* a handler was invoked for the file
WasDispatched(name) == \E i \in DOMAIN dispatched : dispatched[i].File = name

\* C12: a tool that exits nonzero is logged and does not abort the run: when
\* tools have failed in a qc_subject run, every failure is in the log, every
\* dispatchable row has its section written and its handler invoked, and the
\* report is closed and returned.
C12_ToolFailureDoesNotAbort ==
    called = "qc_subject" /\ FailedTools # {} =>
        /\ \A i \in FailedTools : Logged(i)
        /\ qc_outcome = "returned"
        /\ \A p \in DispatchableRows :
              HasSection(exportinfo[p].File) /\ WasDispatched(exportinfo[p].File)

\* two dispatchable rows, the tool of the first of them failed, the second
\* was processed
C12_Witness ==
    /\ called = "qc_subject" /\ qc_outcome = "returned"
    /\ Cardinality(DispatchableRows) = 2
    /\ Len(dispatched) = 2
    /\ \E i \in FailedTools : tools_run[i].File = dispatched[1].File
    /\ \E i \in DOMAIN tools_run :
          tools_run[i].File = dispatched[2].File /\ tools_run[i].returncode = 0
    /\ HasSection(dispatched[2].File)

\* the rows of the table whose tag has no handler
NoHandlerRows == {p \in RealRows : exportinfo[p].tag \notin HandlerTags}

\* the log says that the file was skipped for want of a handler
SkipNotice(name) ==
    \E j \in DOMAIN log :
        log[j] = [level |-> "info", what |-> "No QC tag", File |-> name]

\* the place of the file's section in the report
SectionPlace(name) ==
    CHOOSE i \in DOMAIN report : report[i].kind = "h2" /\ report[i].File = name

\* C13: a real-file row whose tag has no handler is skipped: no handler is
\* invoked for it, the skip is noted, no error is raised and the rows after it
\* are processed; qc_phantom does the same with the files of a phantom.
C13_NoHandlerIsSkipped ==
    /\ called = "qc_subject" /\ ~ParseFails(scandir) /\ dcmdir # <<>>
          => qc_outcome \in {"returned", "skipped"}
    /\ called = "qc_subject" /\ qc_outcome = "returned"
          => /\ \A p \in NoHandlerRows :
                   /\ ~WasDispatched(exportinfo[p].File)
                   /\ SkipNotice(exportinfo[p].File)
             /\ \A p \in DispatchableRows : WasDispatched(exportinfo[p].File)
    /\ called = "qc_phantom" /\ ~ParseFails(scandir) => qc_outcome = "phantom"
    /\ called = "qc_phantom" /\ qc_outcome = "phantom"
          => \A i \in DOMAIN scandir :
                IF scandir[i].tag \in PhantomHandlerTags
                THEN WasDispatched(scandir[i].fn)
                ELSE ~WasDispatched(scandir[i].fn) /\ SkipNotice(scandir[i].fn)

\* qc_subject has skipped a row without handler and then dispatched the next
C13_Witness ==
    /\ called = "qc_subject" /\ qc_outcome = "returned"
    /\ \E p \in NoHandlerRows : \E q \in DispatchableRows :
          /\ SectionPlace(exportinfo[p].File) < SectionPlace(exportinfo[q].File)
          /\ SkipNotice(exportinfo[p].File)
          /\ WasDispatched(exportinfo[q].File)

\* qc_phantom has skipped a file without handler and then dispatched the next
C13_WitnessPhantom ==
    /\ called = "qc_phantom" /\ qc_outcome = "phantom"
    /\ Len(scandir) = 2
    /\ scandir[1].tag \notin PhantomHandlerTags /\ SkipNotice(scandir[1].fn)
    /\ WasDispatched(scandir[2].fn)

\* the artifact the i-th command of the run was to write
ArtifactOf(run, i) == Artifact(run[i].File, run[i].artifact)

\* the commands handlers ran: all but the header check's
HandlerTools(run) == {i \in DOMAIN run : run[i].tool # "qc-headers"}

\* the artifacts of the handler of the i-th invocation of the run
ArtifactsOf(d) ==
    {Artifact(d.File, HandlerSteps(d.handler)[k].artifact) :
        k \in DOMAIN HandlerSteps(d.handler)}

\* C14: a handler looks for the artifact of a tool before it runs the tool:
\* the tools a run invokes are those whose artifact was not there when the
\* run began, so a handler all of whose artifacts exist invokes no tool.
C14_ToolsOnlyForAbsentArtifacts ==
    [][/\ \A i \in HandlerTools(tools_run') : ArtifactOf(tools_run', i) \notin artifacts
       /\ \A j \in DOMAIN dispatched' :
             ArtifactsOf(dispatched'[j]) \subseteq artifacts
                => \A i \in HandlerTools(tools_run') :
                      tools_run'[i].File # dispatched'[j].File]_vars

\* a rerun of qc_subject that invoked two handlers and no tool, the artifacts
\* of both being there
C14_Witness ==
    /\ called = "qc_subject" /\ qc_outcome = "returned" /\ REWRITE
    /\ Len(dispatched) = 2
    /\ tools_run = <<>>
    /\ \A j \in DOMAIN dispatched : ArtifactsOf(dispatched[j]) \subseteq artifacts

\* the report file qc_subject finds when main calls it
FoundReport == RemoveEmpty(report)

\* C15: when the report exists and --rewrite is not given, qc_subject leaves
\* the report as it is, invokes no handler and no header check and returns no
\* name, so that the checklist stays as it is; an existing report is replaced
\* only in a run with --rewrite.
C15_ExistingReportKept ==
    [][called' = "main" =>
          /\ FoundReport # NoFile /\ ~REWRITE'
                => /\ qc_outcome' = "skipped"
                   /\ report' = report
                   /\ dispatched' = <<>> /\ tools_run' = <<>>
                   /\ artifacts' = artifacts
                   /\ checklist' = checklist
          /\ FoundReport # NoFile /\ report' # report => REWRITE']_vars

\* a run without --rewrite that has found a complete report and left it
C15_Witness ==
    /\ called = "main" /\ ~REWRITE /\ qc_outcome = "skipped"
    /\ \E i \in DOMAIN report : report[i].kind = "h2"
    /\ dispatched = <<>> /\ tools_run = <<>>
    /\ checklist # <<>>

\* a run with --rewrite that has replaced the partial report of a failed run
C15_WitnessRewrite ==
    /\ called = "main" /\ REWRITE /\ qc_outcome = "returned"
    /\ prev_outcome \in {"KeyError", "ParseException"}
    /\ dispatched # <<>>

\* C16: with --dry-run a run of main does no work: it executes no tool,
\* creates, changes and removes no file (report, artifacts, checklist, files
\* of size 0) and, in batch mode, submits no job.
C16_DryRunDoesNothing ==
    [][called' \in {"main", "main in batch mode"} /\ DRYRUN'
          => /\ tools_run' = <<>>
             /\ report' = report
             /\ artifacts' = artifacts
             /\ checklist' = checklist
             /\ submitted' = <<>>]_vars

\* what of it holds: only the commands dti_qc gives to dm.utils.run are
\* executed, and no batch job is submitted
C16_DryRunOfRun ==
    [][DRYRUN' =>
          /\ called' = "main"
                => \A i \in DOMAIN tools_run' :
                      tools_run'[i].tool \in {"qc-dti", "qc-spikecount"}
          /\ called' = "main in batch mode" => submitted' = <<>>]_vars

\* a dry run that has executed a tool, written a report and a checklist line
C16_DryRunHasWorked ==
    /\ called = "main" /\ DRYRUN
    /\ tools_run # <<>> /\ artifacts # {}
    /\ qc_outcome = "returned" /\ checklist # <<>>

\* ------------------------------------------------------------------ Scan
\* the series of the list with the tag, in the order of the list
Tagged(series_list, tag) == SelectSeq(series_list, LAMBDA series : series.tag = tag)

\* a tag no file of the model has
NoSuchTag == "RST"

\* the lists of the dict are a partition of the series list
Partitions(tag_dict, series_list) ==
    \A i \in DOMAIN series_list :
        Cardinality({t \in DOMAIN tag_dict :
                        \E k \in DOMAIN tag_dict[t] : tag_dict[t][k] = series_list[i]}) = 1

\* C17: for a constructed Scan, get_tagged_nii(tag) is the list of the niftis
\* with that tag, empty for a tag no file has; nii_tags is the set of the
\* tags whose list is not empty; the lists partition niftis.  The same holds
\* of get_tagged_dcm, dcm_tags and dicoms.
C17_TaggedSeries ==
    scan_outcome = "constructed" =>
        /\ \A tag \in Tags \cup {NoSuchTag} :
              /\ GetTaggedNii(tag) = Tagged(niftis, tag)
              /\ GetTaggedDcm(tag) = Tagged(dicoms, tag)
        /\ nii_tags = {tag \in Tags \cup {NoSuchTag} : GetTaggedNii(tag) # <<>>}
        /\ dcm_tags = {tag \in Tags \cup {NoSuchTag} : GetTaggedDcm(tag) # <<>>}
        /\ Partitions(nii_dict, niftis)
        /\ Partitions(dcm_dict, dicoms)

\* a Scan with two niftis of one tag and none of the other, and dicoms of
\* both tags
C17_Witness ==
    /\ scan_outcome = "constructed"
    /\ Len(GetTaggedNii("T1")) = 2 /\ GetTaggedNii("DTI") = <<>>
    /\ nii_tags = {"T1"}
    /\ dcm_tags = {"T1", "DTI"}
    /\ GetTaggedDcm(NoSuchTag) = <<>>

\* ------------------------------------------------------ runs of main
\* the last qc_subject call of the subject ended in an exception
Aborted == qc_outcome \in {"ParseException", "KeyError", "IndexError"}

\* nothing is left of what makes qc_subject raise
CauseFixed == site_known /\ ~ParseFails(Glob(scandir)) /\ dcmdir # <<>>

\* C18: resubmitting is safe after a partial failure: when a run of the
\* subject was aborted and its cause is fixed, the next run of main, without
\* --rewrite, regenerates and completes the report.
C18_ResubmissionCompletes ==
    [][called' = "main" /\ ~REWRITE' /\ Aborted /\ CauseFixed
          => qc_outcome' = "returned"]_vars

\* what the removal of zero-size files gives: a report left empty is
\* regenerated by the next run
C18_EmptyReportRegenerated ==
    [][called' = "main" /\ report = EmptyFile /\ CauseFixed
          => qc_outcome' = "returned"]_vars

\* the partial report of an aborted run, taken for done by the run after the
\* repair
C18_PartialReportKept ==
    /\ called = "main" /\ ~REWRITE /\ qc_outcome = "skipped" /\ CauseFixed
    /\ report = ReportHead

\* the lines of the checklist that name the subject's report
ReportEntries == {i \in DOMAIN checklist : checklist[i] = Basename(ReportName)}

\* C19: the report name is added to the checklist only if it is not there:
\* after any runs of main for the subject the checklist has at most one line
\* for the subject's report.
C19_OneChecklistEntry == Cardinality(ReportEntries) <= 1

\* the second run with --rewrite has added the report a second time
C19_ReportListedTwice ==
    /\ called = "main" /\ REWRITE /\ qc_outcome = "returned"
    /\ checklist = <<"qc_SUBJ", "qc_SUBJ">>

\* ------------------------------------------------------------- dispatch
\* the files of the real-file rows of the table
RowFiles == {exportinfo[p].File : p \in RealRows}

\* C20: qc_subject invokes a handler only for the file of a real-file row of
\* the table and at most once for a row: never for a missing-row, and never
\* for a file whose tag the manifest does not have, whether or not the tag
\* has a handler.
C20_DispatchOnlyRealRows ==
    called = "qc_subject" =>
        /\ \A i \in DOMAIN dispatched :
              /\ dispatched[i].File # ""
              /\ qc_outcome = "returned" /\ dispatched[i].File \in RowFiles
              /\ FileOf(dispatched[i]).tag \in ConfigTags
        /\ \A i, j \in DOMAIN dispatched :
              dispatched[i].File = dispatched[j].File => i = j

\* a run that dispatched the one row with a file, the table having a
\* missing-row and the directory a scan whose tag has a handler and is not in
\* the manifest
C20_Witness ==
    /\ called = "qc_subject" /\ qc_outcome = "returned"
    /\ Len(dispatched) = 1
    /\ MissingRows # {}
    /\ \E i \in DOMAIN scandir :
          /\ scandir[i].tag \in HandlerTags \ ConfigTags
          /\ ~WasDispatched(scandir[i].fn)

\* a run that dispatched one row, the table having a missing-row of a tag
\* with a handler
C20_WitnessMissing ==
    /\ called = "qc_subject" /\ qc_outcome = "returned"
    /\ Len(dispatched) = 1
    /\ \E p \in MissingRows : exportinfo[p].tag \in HandlerTags

\* -------------------------------------------------------------- anchors
\* the <h2> sections of the report that carry the anchor id
SectionsOf(id) == {i \in DOMAIN report : report[i].kind = "h2" /\ report[i].bookmark = id}

\* C21: bookmark ids are unique per file: any two distinct real-file rows of
\* the table find_expected_files returned have different bookmarks, also when
\* one row's tag is the other's followed by digits (T and T1).
C21_BookmarksUnique ==
    outcome = "returned" =>
        \A p, q \in RealRows :
            p # q => exportinfo[p].bookmark # exportinfo[q].bookmark

\* the eleventh file of tag T and the first of tag T1 share the bookmark T11,
\* and the report has two sections with that anchor
C21_AnchorOfTwoFiles ==
    /\ called = "qc_subject" /\ qc_outcome = "returned"
    /\ \E p, q \in RealRows :
           /\ exportinfo[p].tag = "T" /\ exportinfo[q].tag = "T1"
           /\ exportinfo[p].bookmark = "T11" /\ exportinfo[q].bookmark = "T11"
           /\ exportinfo[p].File # exportinfo[q].File
    /\ Cardinality(SectionsOf("T11")) = 2

\* short of the eleventh file of a tag the bookmarks of the table are distinct
C21_UniqueBelowEleven ==
    (outcome = "returned" /\ \A t \in DOMAIN tag_counts : tag_counts[t] < 11)
        => \A p, q \in RealRows :
               p # q => exportinfo[p].bookmark # exportinfo[q].bookmark

====
